---------------------------- MODULE Spec2Model ----------------------------
(***************************************************************************)
(* A model of the dmweb client of go-ewon: construction (New), the         *)
(* authenticated request primitive (Client.Request / Client.buildURL) and  *)
(* the typed operations built on it (GetStatus, GetEwons, GetEwonByID,     *)
(* GetEwonByName, GetData, SyncData, FirstSyncData).                       *)
(*                                                                         *)
(* Go strings are modelled as sequences of one-character strings, so that  *)
(* query escaping, sorting by key and the decimal rendering of integers    *)
(* are computed character by character as the library computes them.       *)
(***************************************************************************)
EXTENDS Integers, Sequences, FiniteSets, TLC

(***************************************************************************)
(* Characters and strings                                                  *)
(***************************************************************************)

\* The printable ASCII characters in byte order; Ascii[i] has byte value i + 31.
\* (Byte 96, the backquote, cannot be written in a TLA+ string and is named BQ.)
Ascii ==
    <<" ","!","\"","#","$","%","&","'","(",")","*","+",",","-",".","/",
      "0","1","2","3","4","5","6","7","8","9",":",";","<","=",">","?","@",
      "A","B","C","D","E","F","G","H","I","J","K","L","M","N","O","P","Q",
      "R","S","T","U","V","W","X","Y","Z","[","\\","]","^","_","BQ",
      "a","b","c","d","e","f","g","h","i","j","k","l","m","n","o","p","q",
      "r","s","t","u","v","w","x","y","z","{","|","}","~">>

\* The byte value of each character.
CodeOf ==
    [c \in {Ascii[i] : i \in 1..Len(Ascii)} |->
        31 + (CHOOSE i \in 1..Len(Ascii) : Ascii[i] = c)]

Code(c) == CodeOf[c]

Chr(n) == Ascii[n - 31]

Digits == <<"0","1","2","3","4","5","6","7","8","9">>

UpperHex == <<"0","1","2","3","4","5","6","7","8","9","A","B","C","D","E","F">>

IsAlnum(c) ==
    \/ Code(c) \in Code("0")..Code("9")
    \/ Code(c) \in Code("A")..Code("Z")
    \/ Code(c) \in Code("a")..Code("z")

RECURSIVE StrLess(_, _)
\* Go's s < t on strings: bytewise lexicographic order.
StrLess(s, t) ==
    IF t = <<>> THEN FALSE
    ELSE IF s = <<>> THEN TRUE
    ELSE IF Head(s) = Head(t) THEN StrLess(Tail(s), Tail(t))
    ELSE Code(Head(s)) < Code(Head(t))

RECURSIVE NatToStr(_)
NatToStr(n) ==
    IF n < 10 THEN <<Digits[n + 1]>>
    ELSE NatToStr(n \div 10) \o <<Digits[(n % 10) + 1]>>

\* strconv.Itoa: the decimal rendering of an int.
Itoa(i) == IF i < 0 THEN <<"-">> \o NatToStr(-i) ELSE NatToStr(i)

(***************************************************************************)
(* Program constants                                                       *)
(***************************************************************************)

DefaultBaseURL ==
    <<"h","t","t","p","s",":","/","/","d","a","t","a",".",
      "t","a","l","k","2","m",".","c","o","m","/">>

DefaultUserAgent ==
    <<"g","o","-","e","w","o","n","/","d","m","w","e","b"," ","0",".","1">>

\* A Go nil pointer, interface or slice. Every value that may be nil is a
\* record, and so is Nil.
Nil == [type |-> "nil"]

\* errors.New(text): an error value that holds its text and nothing else.
errors_New(text) == [type |-> "errorString", s |-> text]

errorMissingCredentials ==
    errors_New(<<"m","i","s","s","i","n","g"," ","o","n","e"," ","o","r"," ",
                 "m","o","r","e"," ","c","r","e","d","e","n","t","i","a","l","s">>)

errorCouldNotParseArgument ==
    errors_New(<<"c","o","u","l","d"," ","n","o","t"," ","p","a","r","s","e"," ",
                 "a","r","g","u","m","e","n","t">>)

\* The query keys and endpoint names the client writes.
K_t2maccount == <<"t","2","m","a","c","c","o","u","n","t">>
K_t2musername == <<"t","2","m","u","s","e","r","n","a","m","e">>
K_t2mpassword == <<"t","2","m","p","a","s","s","w","o","r","d">>
K_t2mdevid == <<"t","2","m","d","e","v","i","d">>
K_lastTransactionId ==
    <<"l","a","s","t","T","r","a","n","s","a","c","t","i","o","n","I","d">>
K_createTransaction ==
    <<"c","r","e","a","t","e","T","r","a","n","s","a","c","t","i","o","n">>
K_id == <<"i","d">>
K_name == <<"n","a","m","e">>
S_true == <<"t","r","u","e">>
E_getstatus == <<"g","e","t","s","t","a","t","u","s">>
E_getewons == <<"g","e","t","e","w","o","n","s">>
E_getewon == <<"g","e","t","e","w","o","n">>
E_getdata == <<"g","e","t","d","a","t","a">>
E_syncdata == <<"s","y","n","c","d","a","t","a">>

\* The only status Request treats as success.
StatusOK == 200

(***************************************************************************)
(* net/url: Values, QueryEscape, Values.Encode                             *)
(***************************************************************************)

\* url.Values{}: a map from key to the list of its values. A nil url.Values
\* is modelled by the empty one: ranging over either visits nothing.
EmptyValues == [k \in {} |-> <<>>]

\* Values.Add behaving as Values.Set: the value replaces the list of key.
Add_overwrites(v, key, value) ==
    [k \in DOMAIN v \cup {key} |-> IF k = key THEN <<value>> ELSE v[k]]

\* Values.Add(key, value): appends value to the list of key.
Add(v, key, value) ==
    IF key \in DOMAIN v
    THEN [v EXCEPT ![key] = Append(@, value)]
    ELSE [k \in DOMAIN v \cup {key} |-> IF k = key THEN <<value>> ELSE v[k]]

\* url.QueryEscape of one byte: unreserved bytes stay, a space becomes "+",
\* every other byte becomes %XX in upper-case hexadecimal.
EscapeChar(c) ==
    IF IsAlnum(c) \/ c \in {"-", "_", ".", "~"} THEN <<c>>
    ELSE IF c = " " THEN <<"+">>
    ELSE <<"%", UpperHex[(Code(c) \div 16) + 1], UpperHex[(Code(c) % 16) + 1]>>

RECURSIVE QueryEscape(_)
QueryEscape(s) ==
    IF s = <<>> THEN <<>> ELSE EscapeChar(Head(s)) \o QueryEscape(Tail(s))

RECURSIVE SortedKeys(_)
\* The keys in increasing order (sort.Strings).
SortedKeys(ks) ==
    IF ks = {} THEN <<>>
    ELSE LET m == CHOOSE k \in ks : \A o \in ks \ {k} : StrLess(k, o)
         IN  <<m>> \o SortedKeys(ks \ {m})

RECURSIVE EncodeKey(_, _, _)
\* The key=value pairs of one key, each preceded by "&" unless it is the
\* first pair of the whole query (first).
EncodeKey(key, vals, first) ==
    IF vals = <<>> THEN <<>>
    ELSE (IF first THEN <<>> ELSE <<"&">>)
         \o QueryEscape(key) \o <<"=">> \o QueryEscape(Head(vals))
         \o EncodeKey(key, Tail(vals), FALSE)

RECURSIVE EncodeFrom(_, _, _)
EncodeFrom(v, keys, first) ==
    IF keys = <<>> THEN <<>>
    ELSE LET part == EncodeKey(Head(keys), v[Head(keys)], first)
         IN  part \o EncodeFrom(v, Tail(keys), first /\ part = <<>>)

\* Values.Encode(): "URL encoded" form, sorted by key.
Encode(v) == EncodeFrom(v, SortedKeys(DOMAIN v), TRUE)


(***************************************************************************)
(* Construction                                                            *)
(***************************************************************************)

\* New with the check of the last credential forgotten.
New_forgetsDeveloperID(h, accountID, username, password, developerID) ==
    IF accountID = <<>> \/ username = <<>> \/ password = <<>>
    THEN [c |-> Nil, err |-> errorMissingCredentials]
    ELSE [c |-> [Client |-> h,
                 AccountID |-> accountID,
                 Username |-> username,
                 Password |-> password,
                 DevID |-> developerID,
                 baseURL |-> DefaultBaseURL,
                 userAgent |-> DefaultUserAgent],
          err |-> Nil]

\* New(h, accountID, username, password, developerID): the pair it returns.
New(h, accountID, username, password, developerID) ==
    IF accountID = <<>> \/ username = <<>> \/ password = <<>> \/ developerID = <<>>
    THEN [c |-> Nil, err |-> errorMissingCredentials]
    ELSE [c |-> [Client |-> h,
                 AccountID |-> accountID,
                 Username |-> username,
                 Password |-> password,
                 DevID |-> developerID,
                 baseURL |-> DefaultBaseURL,
                 userAgent |-> DefaultUserAgent],
          err |-> Nil]

(***************************************************************************)
(* Client.buildURL and the request handed to the transport                 *)
(***************************************************************************)

RECURSIVE AddAll(_, _, _)
\* for _, val := range vals { v.Add(p, val) }
AddAll(v, p, vals) ==
    IF vals = <<>> THEN v ELSE AddAll(Add(v, p, Head(vals)), p, Tail(vals))

RECURSIVE AddParams(_, _, _)
\* for p, vals := range params { ... } over the keys not yet visited. Go
\* visits the keys of a map in no fixed order; each key has its own list, so
\* the resulting Values do not depend on the order CHOOSE picks.
AddParams(v, params, keys) ==
    IF keys = {} THEN v
    ELSE LET p == CHOOSE k \in keys : TRUE
         IN  AddParams(AddAll(v, p, params[p]), params, keys \ {p})

\* buildURL with the user name written under the password key.
buildValues_swapsFields(c, params) ==
    AddParams(Add(Add(Add(Add(EmptyValues,
                              K_t2maccount, c.AccountID),
                          K_t2musername, c.Username),
                      K_t2mpassword, c.Username),
                  K_t2mdevid, c.DevID),
              params, DOMAIN params)

\* The Values buildURL encodes: the four credentials first, then the caller's.
buildValues(c, params) ==
    AddParams(Add(Add(Add(Add(EmptyValues,
                              K_t2maccount, c.AccountID),
                          K_t2musername, c.Username),
                      K_t2mpassword, c.Password),
                  K_t2mdevid, c.DevID),
              params, DOMAIN params)

buildURL(c, endpoint, params) ==
    c.baseURL \o endpoint \o <<"?">> \o Encode(buildValues(c, params))

IsHex(c) ==
    \/ Code(c) \in Code("0")..Code("9")
    \/ Code(c) \in Code("A")..Code("F")
    \/ Code(c) \in Code("a")..Code("f")

RECURSIVE BadEscape(_)
\* url.Parse rejects a path in which "%" is not followed by two hex digits.
BadEscape(s) ==
    IF s = <<>> THEN FALSE
    ELSE IF Head(s) = "?" THEN FALSE
    ELSE IF Head(s) = "%"
         THEN IF Len(s) >= 3 /\ IsHex(s[2]) /\ IsHex(s[3])
              THEN BadEscape(Tail(s))
              ELSE TRUE
    ELSE BadEscape(Tail(s))

\* http.NewRequest("GET", url, nil) followed by req.Header.Add("User-Agent", ...):
\* the request Request hands to c.Client.Do, or the error of NewRequest.
NewRequest(c, endpoint, params) ==
    LET u == buildURL(c, endpoint, params)
    IN  IF BadEscape(u)
        THEN [req |-> Nil, err |-> [type |-> "url.Error", Op |-> "parse"]]
        ELSE [req |-> [Method |-> "GET",
                       URL |-> u,
                       UserAgent |-> c.userAgent],
              err |-> Nil]

\* Request keeping the URL it built in the client.
ClientAfterRequest_keepsURL(c, endpoint, params) ==
    [c EXCEPT !.baseURL = c.baseURL \o endpoint]

\* The receiver's fields after Request has run: Request and buildURL read the
\* fields of c and assign none of them.
ClientAfterRequest(c, endpoint, params) == c

(***************************************************************************)
(* encoding/json: decoding a response body into one of the package's types *)
(***************************************************************************)

\* A body is not JSON at all (kind "syntax") or a JSON object (kind "object")
\* whose fields map a name to a value [t |-> type, v |-> value]. The Go types
\* are given by their fields, each with the JSON type it accepts and its zero
\* value. Time stamps and the contents of nested arrays are left out: an
\* array is [elems |-> the list of its device or tag identifiers].
T_errorResponse ==
    [success |-> [t |-> "bool", zero |-> FALSE],
     code |-> [t |-> "number", zero |-> 0],
     message |-> [t |-> "string", zero |-> <<>>]]

T_GetStatusResponse ==
    [historyCount |-> [t |-> "number", zero |-> 0],
     ewonsCount |-> [t |-> "number", zero |-> 0],
     ewons |-> [t |-> "array", zero |-> Nil]]

T_EwonsEnvelope ==
    [success |-> [t |-> "bool", zero |-> FALSE],
     ewons |-> [t |-> "array", zero |-> Nil]]

T_Ewon ==
    [id |-> [t |-> "number", zero |-> 0],
     name |-> [t |-> "string", zero |-> <<>>],
     tags |-> [t |-> "array", zero |-> Nil],
     timeZone |-> [t |-> "string", zero |-> <<>>]]

T_GetDataResponse ==
    [success |-> [t |-> "bool", zero |-> FALSE],
     moreDataAvailable |-> [t |-> "bool", zero |-> FALSE],
     ewons |-> [t |-> "array", zero |-> Nil]]

T_SyncResponse ==
    [success |-> [t |-> "bool", zero |-> FALSE],
     transactionId |-> [t |-> "string", zero |-> <<>>],
     moreDataAvailable |-> [t |-> "bool", zero |-> FALSE],
     ewons |-> [t |-> "array", zero |-> Nil]]

\* var x T: every field at its zero value.
ZeroValue(T) == [f \in DOMAIN T |-> T[f].zero]

\* json.NewDecoder(body).Decode(&x) with x a zero value of type T: the value
\* x holds afterwards and the error returned. A body that is not JSON leaves
\* x untouched. In a JSON object, unknown fields are skipped, a field of the
\* right type is stored, and a field of the wrong type is skipped and
\* reported (json.UnmarshalTypeError) while the other fields are still
\* stored. (The bodies of this model hold at most one field of a wrong type.)
Decode(body, T) ==
    IF body.kind = "syntax"
    THEN [val |-> ZeroValue(T), err |-> [type |-> "json.SyntaxError"]]
    ELSE LET present == DOMAIN T \cap DOMAIN body.fields
             bad == {f \in present : body.fields[f].t # T[f].t}
         IN  [val |-> [f \in DOMAIN T |->
                          IF f \in present \ bad THEN body.fields[f].v
                                                 ELSE T[f].zero],
              err |-> IF bad = {} THEN Nil
                      ELSE [type |-> "json.UnmarshalTypeError",
                            Field |-> CHOOSE f \in bad : TRUE]]

(***************************************************************************)
(* Client.Request after c.Client.Do has returned                           *)
(***************************************************************************)

\* Request writing the code of the envelope into the text of the error.
RequestReturn_formatsCode(do) ==
    IF do.err # Nil THEN [res |-> do.res, err |-> do.err]
    ELSE IF do.res.StatusCode # StatusOK
         THEN LET er == Decode(do.res.Body, T_errorResponse)
              IN  IF er.err # Nil
                  THEN [res |-> Nil, err |-> er.err]
                  ELSE [res |-> Nil,
                        err |-> errors_New(Itoa(er.val.code) \o <<":", " ">>
                                           \o er.val.message)]
    ELSE [res |-> do.res, err |-> Nil]

\* Request replacing the error of the transport by one of its own.
RequestReturn_hidesTransportError(do) ==
    IF do.err # Nil
    THEN [res |-> do.res,
          err |-> errors_New(<<"r","e","q","u","e","s","t"," ",
                               "f","a","i","l","e","d">>)]
    ELSE IF do.res.StatusCode # StatusOK
         THEN LET er == Decode(do.res.Body, T_errorResponse)
              IN  IF er.err # Nil
                  THEN [res |-> Nil, err |-> er.err]
                  ELSE [res |-> Nil, err |-> errors_New(er.val.message)]
    ELSE [res |-> do.res, err |-> Nil]

\* Request not looking at the error of decoding the envelope.
RequestReturn_ignoresDecodeError(do) ==
    IF do.err # Nil THEN [res |-> do.res, err |-> do.err]
    ELSE IF do.res.StatusCode # StatusOK
         THEN LET er == Decode(do.res.Body, T_errorResponse)
              IN  [res |-> Nil, err |-> errors_New(er.val.message)]
    ELSE [res |-> do.res, err |-> Nil]

\* Request taking every 2xx status for success.
RequestReturn_acceptsAll2xx(do) ==
    IF do.err # Nil THEN [res |-> do.res, err |-> do.err]
    ELSE IF do.res.StatusCode \notin 200..299
         THEN LET er == Decode(do.res.Body, T_errorResponse)
              IN  IF er.err # Nil
                  THEN [res |-> Nil, err |-> er.err]
                  ELSE [res |-> Nil, err |-> errors_New(er.val.message)]
    ELSE [res |-> do.res, err |-> Nil]

\* What c.Client.Do returned is a pair [res, err]; a response is
\* [StatusCode, Body, closed]. RequestReturn is what Request returns for it.
RequestReturn(do) ==
    IF do.err # Nil THEN [res |-> do.res, err |-> do.err]
    ELSE IF do.res.StatusCode # StatusOK
         THEN LET er == Decode(do.res.Body, T_errorResponse)
              IN  IF er.err # Nil
                  THEN [res |-> Nil, err |-> er.err]
                  ELSE [res |-> Nil, err |-> errors_New(er.val.message)]
    ELSE [res |-> do.res, err |-> Nil]

(***************************************************************************)
(* The operations: what each does before it calls Request (the endpoint    *)
(* and the query parameters it builds, or the error it returns at once)    *)
(* and the type it decodes a successful response into.                     *)
(***************************************************************************)

\* Request called directly: no decoding, the response itself is returned.
RequestOp(endpoint, params) ==
    [endpoint |-> endpoint, params |-> params, err |-> Nil,
     typed |-> FALSE, T |-> Nil, returns |-> "response"]

GetStatus ==
    [endpoint |-> E_getstatus, params |-> EmptyValues, err |-> Nil,
     typed |-> TRUE, T |-> T_GetStatusResponse, returns |-> "pointer"]

\* GetEwons decodes {Success, Ewons} and returns the Ewons field alone.
GetEwons ==
    [endpoint |-> E_getewons, params |-> EmptyValues, err |-> Nil,
     typed |-> TRUE, T |-> T_EwonsEnvelope, returns |-> "ewons"]

\* getEwonByIdentifier writing every identifier under "id" and sending the
\* request also for an identifier of an unsupported kind.
getEwonByIdentifier_ignoresKind(qp, i) ==
    [endpoint |-> E_getewon,
     params |-> IF i.kind = "int" THEN Add(EmptyValues, K_id, Itoa(i.v))
                ELSE IF i.kind = "string" THEN Add(EmptyValues, K_id, i.v)
                ELSE EmptyValues,
     err |-> Nil,
     typed |-> TRUE, T |-> T_Ewon, returns |-> "pointer"]

\* getEwonByIdentifier(qp, i): i is an interface{} value [kind, v].
getEwonByIdentifier(qp, i) ==
    [endpoint |-> E_getewon,
     params |-> IF i.kind = "int" THEN Add(EmptyValues, qp, Itoa(i.v))
                ELSE IF i.kind = "string" THEN Add(EmptyValues, qp, i.v)
                ELSE EmptyValues,
     err |-> IF i.kind \in {"int", "string"} THEN Nil
             ELSE errorCouldNotParseArgument,
     typed |-> TRUE, T |-> T_Ewon, returns |-> "pointer"]

GetEwonByID(id) == getEwonByIdentifier(K_id, [kind |-> "int", v |-> id])

GetEwonByName(name) == getEwonByIdentifier(K_name, [kind |-> "string", v |-> name])

RECURSIVE AddMap(_, _, _)
\* for k, v := range params { qs.Add(k, v) } over the keys not yet visited.
AddMap(qs, params, keys) ==
    IF keys = {} THEN qs
    ELSE LET k == CHOOSE x \in keys : TRUE
         IN  AddMap(Add(qs, k, params[k]), params, keys \ {k})

\* GetData(params): params is a map[string]string.
GetData(params) ==
    [endpoint |-> E_getdata,
     params |-> AddMap(EmptyValues, params, DOMAIN params),
     err |-> Nil,
     typed |-> TRUE, T |-> T_GetDataResponse, returns |-> "pointer"]

\* SyncData sending the transaction identifier only when it asks for no new one.
SyncDataParams_dropsIDOnCreate(lastTransactionID, createTransaction) ==
    IF createTransaction THEN Add(EmptyValues, K_createTransaction, S_true)
    ELSE IF lastTransactionID # <<>>
         THEN Add(EmptyValues, K_lastTransactionId, lastTransactionID)
         ELSE EmptyValues

\* SyncData sending lastTransactionId even when it is empty.
SyncDataParams_alwaysSendsID(lastTransactionID, createTransaction) ==
    LET qs1 == Add(EmptyValues, K_lastTransactionId, lastTransactionID)
    IN  IF createTransaction THEN Add(qs1, K_createTransaction, S_true) ELSE qs1

SyncDataParams(lastTransactionID, createTransaction) ==
    LET qs1 == IF lastTransactionID # <<>>
               THEN Add(EmptyValues, K_lastTransactionId, lastTransactionID)
               ELSE EmptyValues
    IN  IF createTransaction THEN Add(qs1, K_createTransaction, S_true) ELSE qs1

SyncData(lastTransactionID, createTransaction) ==
    [endpoint |-> E_syncdata,
     params |-> SyncDataParams(lastTransactionID, createTransaction),
     err |-> Nil,
     typed |-> TRUE, T |-> T_SyncResponse, returns |-> "pointer"]

FirstSyncData == SyncData(<<>>, TRUE)

\* What a typed operation returns once Request has returned r = [res, err]:
\* (nil, err) when Request failed, else the decoded value together with the
\* error of Decode. Request called directly returns r itself.
OpReturn(plan, r) ==
    IF ~plan.typed THEN [val |-> r.res, err |-> r.err]
    ELSE IF r.err # Nil THEN [val |-> Nil, err |-> r.err]
    ELSE LET d == Decode(r.res.Body, plan.T)
         IN  [val |-> IF plan.returns = "ewons" THEN d.val.ewons ELSE d.val,
              err |-> d.err]

\* The operation a caller invokes, by name and arguments.
Plan(call) ==
    CASE call.op = "Request" -> RequestOp(call.endpoint, call.params)
      [] call.op = "GetStatus" -> GetStatus
      [] call.op = "GetEwons" -> GetEwons
      [] call.op = "getEwonByIdentifier" -> getEwonByIdentifier(call.qp, call.i)
      [] call.op = "GetEwonByID" -> GetEwonByID(call.id)
      [] call.op = "GetEwonByName" -> GetEwonByName(call.name)
      [] call.op = "GetData" -> GetData(call.params)
      [] call.op = "SyncData" ->
            SyncData(call.lastTransactionID, call.createTransaction)
      [] call.op = "FirstSyncData" -> FirstSyncData

(***************************************************************************)
(* Inputs: the arguments callers pass and the answers of the transport     *)
(***************************************************************************)

\* The number of callers that use the one client concurrently (SpecConc).
NumCallers == 2

Callers == 1..NumCallers

\* The *http.Client handed to New.
TheHTTPClient == [type |-> "http.Client"]

AccountIDs == {<<>>, <<"a","c","c">>, <<"a","/","c">>}
Usernames == {<<>>, <<"u","s","e","r">>}
Passwords == {<<>>, <<"p"," ","w">>}
DeveloperIDs == {<<>>, <<"d","e","v","&","1">>}

K_limit == <<"l","i","m","i","t">>
K_fullConfig == <<"f","u","l","l","C","o","n","f","i","g">>

\* map[string]string arguments of GetData; the last reuses a credential key.
DataParams ==
    {EmptyValues,
     [k \in {K_limit, K_fullConfig} |-> IF k = K_limit THEN <<"5">> ELSE <<>>],
     [k \in {K_t2maccount} |-> <<"x","=","y">>]}

\* url.Values arguments of a direct Request.
RequestParams ==
    {EmptyValues,
     [k \in {K_limit, K_t2mdevid} |->
         IF k = K_limit THEN <<<<"1">>, <<"2">>>> ELSE <<<<"z">>>>]}

\* Transaction identifiers a caller may hold from elsewhere.
GivenTransactionIDs == {<<>>, <<"7","&","8">>}

\* The calls of a caller whose stored cursor is cur; a call marked
\* fromCursor passes the transaction identifier the caller kept from its
\* last successful sync.
AllCalls(hasCur, cur) ==
    {[op |-> "Request", endpoint |-> E_getewons, params |-> p] : p \in RequestParams}
    \cup {[op |-> "Request", endpoint |-> <<"%">>, params |-> EmptyValues]}
    \cup {[op |-> "GetStatus"], [op |-> "GetEwons"], [op |-> "FirstSyncData"]}
    \cup {[op |-> "getEwonByIdentifier", qp |-> K_id,
           i |-> [kind |-> "float64", v |-> 1]]}
    \cup {[op |-> "GetEwonByID", id |-> i] : i \in {-7, 508238}}
    \cup {[op |-> "GetEwonByName", name |-> n] :
             n \in {<<"l","t","n"," ","1">>, <<"a","&","i","d","=","1">>}}
    \cup {[op |-> "GetData", params |-> m] : m \in DataParams}
    \cup {[op |-> "SyncData", lastTransactionID |-> l, createTransaction |-> b,
           fromCursor |-> FALSE] : l \in GivenTransactionIDs, b \in BOOLEAN}
    \cup {[op |-> "SyncData", lastTransactionID |-> cur, createTransaction |-> b,
           fromCursor |-> TRUE] : b \in {x \in BOOLEAN : hasCur}}

\* The calls of the concurrent callers.
ConcCalls(hasCur, cur) ==
    {[op |-> "GetStatus"], [op |-> "FirstSyncData"]}
    \cup {[op |-> "SyncData", lastTransactionID |-> cur, createTransaction |-> FALSE,
           fromCursor |-> TRUE] : b \in {x \in {TRUE} : hasCur}}

JBool(b) == [t |-> "bool", v |-> b]
JNum(n) == [t |-> "number", v |-> n]
JStr(s) == [t |-> "string", v |-> s]
JArr(a) == [t |-> "array", v |-> [elems |-> a]]

B_syntax == [kind |-> "syntax"]

B_emptyObject == [kind |-> "object", fields |-> [f \in {} |-> JNum(0)]]

\* {"success":false,"code":401,"message":"Invalid credentials"}
B_invalidCredentials ==
    [kind |-> "object",
     fields |-> [success |-> JBool(FALSE), code |-> JNum(401),
                 message |-> JStr(<<"I","n","v","a","l","i","d"," ",
                                    "c","r","e","d","e","n","t","i","a","l","s">>)]]

\* {"success":false,"code":404}
B_noMessage ==
    [kind |-> "object", fields |-> [success |-> JBool(FALSE), code |-> JNum(404)]]

\* {"success":false,"code":500,"message":500}
B_badMessage ==
    [kind |-> "object",
     fields |-> [success |-> JBool(FALSE), code |-> JNum(500), message |-> JNum(500)]]

B_status ==
    [kind |-> "object",
     fields |-> [historyCount |-> JNum(20732), ewonsCount |-> JNum(2),
                 ewons |-> JArr(<<2, 190>>)]]

B_statusBadCount ==
    [kind |-> "object",
     fields |-> [historyCount |-> JNum(20732), ewonsCount |-> JStr(<<"2">>),
                 ewons |-> JArr(<<2, 190>>)]]

B_ewons ==
    [kind |-> "object",
     fields |-> [success |-> JBool(TRUE), ewons |-> JArr(<<508238>>)]]

B_ewonsNoSuccess ==
    [kind |-> "object",
     fields |-> [success |-> JBool(FALSE), ewons |-> JArr(<<508238>>)]]

B_ewonsBadSuccess ==
    [kind |-> "object",
     fields |-> [success |-> JStr(<<"y","e","s">>), ewons |-> JArr(<<508238>>)]]

B_ewon ==
    [kind |-> "object",
     fields |-> [id |-> JNum(508238),
                 name |-> JStr(<<"l","t","n","_","f","l","e","x","y">>),
                 tags |-> JArr(<<780591>>),
                 timeZone |-> JStr(<<"E","u","r","o","p","e","/",
                                     "B","r","u","s","s","e","l","s">>)]]

B_ewonBadID ==
    [kind |-> "object",
     fields |-> [id |-> JStr(<<"x">>),
                 name |-> JStr(<<"l","t","n","_","f","l","e","x","y">>)]]

B_data ==
    [kind |-> "object",
     fields |-> [success |-> JBool(TRUE), moreDataAvailable |-> JBool(TRUE),
                 ewons |-> JArr(<<508238>>)]]

B_dataBadMore ==
    [kind |-> "object",
     fields |-> [success |-> JBool(TRUE), moreDataAvailable |-> JNum(1),
                 ewons |-> JArr(<<508238>>)]]

B_sync(transactionId, more) ==
    [kind |-> "object",
     fields |-> [success |-> JBool(TRUE), transactionId |-> JStr(transactionId),
                 moreDataAvailable |-> JBool(more), ewons |-> JArr(<<508238>>)]]

B_syncBadID ==
    [kind |-> "object",
     fields |-> [success |-> JBool(TRUE), transactionId |-> JNum(456789),
                 moreDataAvailable |-> JBool(TRUE)]]

TX_first == <<"4","5","6","7","8","9">>
TX_second == <<"9","8","7","6","5","4">>
TX_odd == <<"a","+","b">>

\* The bodies the service may send on an endpoint, of whatever status.
CommonBodies == {B_syntax, B_emptyObject, B_invalidCredentials, B_noMessage, B_badMessage}

BodiesFor(endpoint) ==
    CommonBodies \cup
    (CASE endpoint = E_getstatus -> {B_status, B_statusBadCount}
       [] endpoint = E_getewons -> {B_ewons, B_ewonsNoSuccess, B_ewonsBadSuccess}
       [] endpoint = E_getewon -> {B_ewon, B_ewonBadID}
       [] endpoint = E_getdata -> {B_data, B_dataBadMore}
       [] endpoint = E_syncdata ->
            {B_sync(TX_first, TRUE), B_sync(TX_second, FALSE), B_sync(TX_odd, TRUE),
             B_syncBadID}
       [] OTHER -> {})

ConcBodiesFor(endpoint) ==
    CASE endpoint = E_getstatus -> {B_status}
      [] endpoint = E_syncdata -> {B_sync(TX_first, TRUE), B_sync(TX_second, FALSE)}
      [] OTHER -> {}

Statuses == {200, 201, 401, 404}

\* What c.Client.Do may return: an error with no response; an error with the
\* response whose body http.Client has already closed (its redirect policy
\* failed); or a response, of any status, with an open body.
TransportFailures ==
    {[res |-> Nil,
      err |-> [type |-> "url.Error", Op |-> "Get", Err |-> "connection refused"]],
     [res |-> [StatusCode |-> 302, Body |-> B_syntax, closed |-> TRUE],
      err |-> [type |-> "url.Error", Op |-> "Get", Err |-> "stopped after 10 redirects"]]}

Responses(statuses, bodies) ==
    {[res |-> [StatusCode |-> st, Body |-> b, closed |-> FALSE], err |-> Nil] :
        st \in statuses, b \in bodies}

(***************************************************************************)
(* State                                                                   *)
(***************************************************************************)

VARIABLES
    client,     \* the *Client New returned (Nil until New succeeds)
    made,       \* the last call of New: its arguments and what it returned
    pc,         \* per caller: "idle", "inflight" (inside c.Client.Do), "returned"
    call,       \* per caller: the operation it is in, with its arguments
    req,        \* per caller: the request its call handed to the transport
    sent,       \* per caller: how many requests its call handed to the transport
    ans,        \* per caller: what c.Client.Do returned to its call
    ret,        \* per caller: what the operation returned, [val, err]
    bodyOpen,   \* per caller: its call obtained a response body that is still open
    hasCursor,  \* per caller: it keeps a transaction identifier of an earlier sync
    cursor,     \* per caller: that transaction identifier (the caller's own state)
    lastTx      \* per caller: the transactionId the service wrote into the body of
                \* the caller's last successful sync response, as sent

vars == <<client, made, pc, call, req, sent, ans, ret, bodyOpen, hasCursor, cursor, lastTx>>

callVars == <<call, req, sent, ans, ret, bodyOpen>>

NoCall == [op |-> "none"]

NoAnswer == [res |-> Nil, err |-> Nil]

NoReturn == [val |-> Nil, err |-> Nil]

Init ==
    /\ client = Nil
    /\ made = [called |-> FALSE, args |-> <<>>, c |-> Nil, err |-> Nil]
    /\ pc = [c \in Callers |-> "idle"]
    /\ call = [c \in Callers |-> NoCall]
    /\ req = [c \in Callers |-> Nil]
    /\ sent = [c \in Callers |-> 0]
    /\ ans = [c \in Callers |-> NoAnswer]
    /\ ret = [c \in Callers |-> NoReturn]
    /\ bodyOpen = [c \in Callers |-> FALSE]
    /\ hasCursor = [c \in Callers |-> FALSE]
    /\ cursor = [c \in Callers |-> <<>>]
    /\ lastTx = [c \in Callers |-> <<>>]

(***************************************************************************)
(* Actions                                                                 *)
(***************************************************************************)

\* The application calls New; it goes on with the client once New succeeds.
Construct(accountID, username, password, developerID) ==
    /\ client = Nil
    /\ LET r == New(TheHTTPClient, accountID, username, password, developerID)
       IN  /\ client' = r.c
           /\ made' = [called |-> TRUE,
                       args |-> <<accountID, username, password, developerID>>,
                       c |-> r.c, err |-> r.err]
    /\ UNCHANGED <<pc, callVars, hasCursor, cursor, lastTx>>

\* Whether an open body is left behind once the operation has returned, given
\* what c.Client.Do returned: neither Request nor any operation built on it
\* calls Body.Close(), so a body that arrives open stays open.
BodyOpenAfter(plan, do) == do.res # Nil /\ ~do.res.closed

\* Caller c calls operation k. The operation runs up to c.Client.Do: it
\* builds its parameters and Request builds the URL and the request. It
\* returns at once when the argument or the URL is rejected.
Invoke(c, k) ==
    /\ client # Nil
    /\ pc[c] = "idle"
    /\ call' = [call EXCEPT ![c] = k]
    /\ LET plan == Plan(k)
           nr == NewRequest(client, plan.endpoint, plan.params)
       IN  IF plan.err # Nil
           THEN /\ ret' = [ret EXCEPT ![c] = [val |-> Nil, err |-> plan.err]]
                /\ pc' = [pc EXCEPT ![c] = "returned"]
                /\ UNCHANGED <<client, req, sent>>
           ELSE IF nr.err # Nil
           THEN /\ ret' = [ret EXCEPT ![c] =
                              OpReturn(plan, [res |-> Nil, err |-> nr.err])]
                /\ pc' = [pc EXCEPT ![c] = "returned"]
                /\ client' = ClientAfterRequest(client, plan.endpoint, plan.params)
                /\ UNCHANGED <<req, sent>>
           ELSE /\ req' = [req EXCEPT ![c] = nr.req]
                /\ sent' = [sent EXCEPT ![c] = @ + 1]
                /\ pc' = [pc EXCEPT ![c] = "inflight"]
                /\ client' = ClientAfterRequest(client, plan.endpoint, plan.params)
                /\ UNCHANGED ret
    /\ UNCHANGED <<made, ans, bodyOpen, hasCursor, cursor, lastTx>>

\* c.Client.Do returns do to the call of caller c; Request and the operation
\* run to their return.
Answer(c, do) ==
    /\ pc[c] = "inflight"
    /\ ans' = [ans EXCEPT ![c] = do]
    /\ ret' = [ret EXCEPT ![c] = OpReturn(Plan(call[c]), RequestReturn(do))]
    /\ bodyOpen' = [bodyOpen EXCEPT ![c] = BodyOpenAfter(Plan(call[c]), do)]
    /\ pc' = [pc EXCEPT ![c] = "returned"]
    /\ UNCHANGED <<client, made, call, req, sent, hasCursor, cursor, lastTx>>

IsSync(k) == k.op \in {"SyncData", "FirstSyncData"}

\* Caller c takes what its call returned. After a sync that returned no
\* error it keeps the transaction identifier of the result for its next call.
Finish(c) ==
    /\ pc[c] = "returned"
    /\ pc' = [pc EXCEPT ![c] = "idle"]
    /\ call' = [call EXCEPT ![c] = NoCall]
    /\ req' = [req EXCEPT ![c] = Nil]
    /\ sent' = [sent EXCEPT ![c] = 0]
    /\ ans' = [ans EXCEPT ![c] = NoAnswer]
    /\ ret' = [ret EXCEPT ![c] = NoReturn]
    /\ bodyOpen' = [bodyOpen EXCEPT ![c] = FALSE]
    /\ IF IsSync(call[c]) /\ ret[c].err = Nil
       THEN /\ hasCursor' = [hasCursor EXCEPT ![c] = TRUE]
            /\ cursor' = [cursor EXCEPT ![c] = ret[c].val.transactionId]
            /\ lastTx' = [lastTx EXCEPT ![c] =
                  IF "transactionId" \in DOMAIN ans[c].res.Body.fields
                  THEN ans[c].res.Body.fields.transactionId.v
                  ELSE <<>>]
       ELSE UNCHANGED <<hasCursor, cursor, lastTx>>
    /\ UNCHANGED <<client, made>>

\* The answers the transport may give to the call of caller c.
Answers(c) ==
    IF pc[c] # "inflight" THEN {}
    ELSE TransportFailures
         \cup Responses(Statuses, BodiesFor(Plan(call[c]).endpoint))

ConcAnswers(c) ==
    IF pc[c] # "inflight" THEN {}
    ELSE {d \in TransportFailures : d.res = Nil}
         \cup Responses({StatusOK}, ConcBodiesFor(Plan(call[c]).endpoint))
         \cup Responses({401}, {B_invalidCredentials})

\* One caller, every operation and every answer, one call after another.
Next ==
    \/ \E a \in AccountIDs, u \in Usernames, p \in Passwords, d \in DeveloperIDs :
          Construct(a, u, p, d)
    \/ \E k \in AllCalls(hasCursor[1], cursor[1]) : Invoke(1, k)
    \/ \E do \in Answers(1) : Answer(1, do)
    \/ Finish(1)

Spec == Init /\ [][Next]_vars

\* NumCallers callers use the client at the same time.
NextConc ==
    \/ \E a \in {<<"a","/","c">>}, u \in Usernames \ {<<>>},
          p \in Passwords \ {<<>>}, d \in DeveloperIDs \ {<<>>} :
          Construct(a, u, p, d)
    \/ \E c \in Callers :
          \/ \E k \in ConcCalls(hasCursor[c], cursor[c]) : Invoke(c, k)
          \/ \E do \in ConcAnswers(c) : Answer(c, do)
          \/ Finish(c)

SpecConc == Init /\ [][NextConc]_vars

(***************************************************************************)
(* Reading a request as the service receives it (url.ParseQuery): the      *)
(* properties below speak of the parameters a request carries, which are   *)
(* the ones the receiver finds in its query string.                        *)
(***************************************************************************)

RECURSIVE IndexOf(_, _, _)
\* The first position >= i of character ch in s, or 0.
IndexOf(s, ch, i) ==
    IF i > Len(s) THEN 0 ELSE IF s[i] = ch THEN i ELSE IndexOf(s, ch, i + 1)

\* The raw query of a URL: what follows its first "?".
QueryOf(url) ==
    LET q == IndexOf(url, "?", 1)
    IN  IF q = 0 THEN <<>> ELSE SubSeq(url, q + 1, Len(url))

RECURSIVE SplitAmp(_)
\* The pieces of a raw query between its "&".
SplitAmp(s) ==
    LET a == IndexOf(s, "&", 1)
    IN  IF a = 0 THEN <<s>>
        ELSE <<SubSeq(s, 1, a - 1)>> \o SplitAmp(SubSeq(s, a + 1, Len(s)))

HexVal(ch) == (CHOOSE i \in 1..16 : UpperHex[i] = ch) - 1

RECURSIVE QueryUnescape(_)
QueryUnescape(s) ==
    IF s = <<>> THEN <<>>
    ELSE IF Head(s) = "+" THEN <<" ">> \o QueryUnescape(Tail(s))
    ELSE IF Head(s) = "%"
         THEN <<Chr(16 * HexVal(s[2]) + HexVal(s[3]))>>
              \o QueryUnescape(SubSeq(s, 4, Len(s)))
    ELSE <<Head(s)>> \o QueryUnescape(Tail(s))

\* One piece as <<key, value>>: split at its first "=", both parts unescaped.
ParsePair(piece) ==
    LET e == IndexOf(piece, "=", 1)
    IN  IF e = 0 THEN <<QueryUnescape(piece), <<>>>>
        ELSE <<QueryUnescape(SubSeq(piece, 1, e - 1)),
               QueryUnescape(SubSeq(piece, e + 1, Len(piece)))>>

\* The <<key, value>> pairs of a raw query, in the order written.
ParseQuery(raw) ==
    LET pieces == SplitAmp(raw)
        kept == SelectSeq(pieces, LAMBDA x : x # <<>>)
    IN  [i \in 1..Len(kept) |-> ParsePair(kept[i])]

RECURSIVE ValuesOfKey(_, _)
ValuesOfKey(pairs, key) ==
    IF pairs = <<>> THEN <<>>
    ELSE (IF Head(pairs)[1] = key THEN <<Head(pairs)[2]>> ELSE <<>>)
         \o ValuesOfKey(Tail(pairs), key)

\* The values the request carries under key, in order (none: <<>>).
Carried(request, key) == ValuesOfKey(ParseQuery(QueryOf(request.URL)), key)

\* url.Values.Get at the receiver: the first value of key, "" when absent.
Received(request, key) ==
    IF Carried(request, key) = <<>> THEN <<>> ELSE Head(Carried(request, key))

\* A JSON field of a body as the service wrote it ("" / false when absent).
SentString(body, f) ==
    IF body.kind = "object" /\ f \in DOMAIN body.fields /\ body.fields[f].t = "string"
    THEN body.fields[f].v ELSE <<>>

SentBool(body, f) ==
    body.kind = "object" /\ f \in DOMAIN body.fields
    /\ body.fields[f].t = "bool" /\ body.fields[f].v

\* The body is an error envelope {success, code, message} json can decode:
\* a JSON object in which each of the three fields, when present, has its type.
IsEnvelope(body) ==
    /\ body.kind = "object"
    /\ \A f \in DOMAIN body.fields :
          /\ f = "success" => body.fields[f].t = "bool"
          /\ f = "code" => body.fields[f].t = "number"
          /\ f = "message" => body.fields[f].t = "string"

\* Caller c's call has returned after the service answered with a status
\* other than 200 and a decodable error envelope.
ServiceErrorCase(c) ==
    /\ pc[c] = "returned"
    /\ ans[c].err = Nil
    /\ ans[c].res # Nil
    /\ ans[c].res.StatusCode # 200
    /\ IsEnvelope(ans[c].res.Body)

\* The operation of caller c is one of the typed operations.
TypedCall(c) ==
    call[c].op \in {"GetStatus", "GetEwons", "getEwonByIdentifier", "GetEwonByID",
                    "GetEwonByName", "GetData", "SyncData", "FirstSyncData"}

(***************************************************************************)
(* Properties                                                              *)
(***************************************************************************)

\* C1: New fails with errorMissingCredentials and returns no client if and
\* only if one of the four credential strings is empty; otherwise it returns
\* no error and a client whose base URL and user agent are the defaults and
\* whose credential fields are the arguments.
C1_NewChecksCredentials ==
    made.called =>
        LET anyEmpty == \E i \in 1..4 : made.args[i] = <<>>
        IN  /\ (made.err = errorMissingCredentials /\ made.c = Nil) <=> anyEmpty
            /\ ~anyEmpty =>
                  /\ made.err = Nil
                  /\ made.c # Nil
                  /\ made.c.baseURL = DefaultBaseURL
                  /\ made.c.userAgent = DefaultUserAgent
                  /\ made.c.AccountID = made.args[1]
                  /\ made.c.Username = made.args[2]
                  /\ made.c.Password = made.args[3]
                  /\ made.c.DevID = made.args[4]
                  /\ client = made.c

C1_Witness ==
    /\ made.called
    /\ made.err = Nil
    /\ made.args = <<<<"a","/","c">>, <<"u","s","e","r">>, <<"p"," ","w">>,
                     <<"d","e","v","&","1">>>>
    /\ client # Nil

\* C2: every request handed to the transport, whichever operation issued it
\* and whatever extra parameters it was given, is a GET with the fixed
\* User-Agent and carries each of the four credential parameters with the
\* value the client holds.
C2_RequestsCarryCredentials ==
    \A c \in Callers :
        req[c] # Nil =>
            /\ req[c].Method = "GET"
            /\ req[c].UserAgent = DefaultUserAgent
            /\ \E i \in 1..Len(Carried(req[c], K_t2maccount)) :
                  Carried(req[c], K_t2maccount)[i] = client.AccountID
            /\ \E i \in 1..Len(Carried(req[c], K_t2musername)) :
                  Carried(req[c], K_t2musername)[i] = client.Username
            /\ \E i \in 1..Len(Carried(req[c], K_t2mpassword)) :
                  Carried(req[c], K_t2mpassword)[i] = client.Password
            /\ \E i \in 1..Len(Carried(req[c], K_t2mdevid)) :
                  Carried(req[c], K_t2mdevid)[i] = client.DevID

C2_Witness ==
    \E c \in Callers :
        /\ pc[c] = "inflight"
        /\ call[c].op = "GetData"
        /\ K_t2maccount \in DOMAIN call[c].params
        /\ req[c] # Nil

\* C3: when the service answers with a status other than 200 and a decodable
\* error envelope, the operation fails with an error whose text is exactly
\* the message of the envelope, whatever the operation and the status.
C3_ServiceErrorText ==
    \A c \in Callers :
        ServiceErrorCase(c) =>
            /\ ret[c].err # Nil
            /\ ret[c].err.type = "errorString"
            /\ ret[c].err.s = SentString(ans[c].res.Body, "message")

C3_Witness ==
    \E c \in Callers :
        /\ ServiceErrorCase(c)
        /\ call[c].op = "GetData"
        /\ ans[c].res.StatusCode = 404
        /\ ans[c].res.Body = B_invalidCredentials

\* C4: no partial success: a typed operation returns either a decoded
\* result and no error, or an error and no result (nil); in particular not
\* when the body of a 200 response fails to decode.
C4_NoPartialResult ==
    \A c \in Callers :
        (pc[c] = "returned" /\ TypedCall(c) /\ ret[c].err # Nil) => ret[c].val = Nil

\* C5: once an operation has returned, no response body it obtained is left
\* open; the one body that may stay open is the one a successful direct
\* Request hands to its caller.
C5_BodyReleased ==
    \A c \in Callers :
        (pc[c] = "returned" /\ bodyOpen[c]) =>
            (call[c].op = "Request" /\ ret[c].err = Nil)

\* C6: in a chain of sync calls a request that continues from the caller's
\* cursor carries as lastTransactionId the transactionId the service sent in
\* the caller's previous successful sync response, the first call carries
\* none, and the SyncResponse of each call holds the transactionId and
\* moreDataAvailable of that call's own response. (A parameter that is
\* absent reads as the empty string at the receiver.)
C6_SyncContinuation ==
    \A c \in Callers :
        /\ (req[c] # Nil /\ call[c].op = "SyncData" /\ call[c].fromCursor) =>
              Received(req[c], K_lastTransactionId) = lastTx[c]
        /\ (req[c] # Nil /\ call[c].op = "FirstSyncData") =>
              Carried(req[c], K_lastTransactionId) = <<>>
        /\ (pc[c] = "returned" /\ IsSync(call[c]) /\ ret[c].err = Nil) =>
              /\ ret[c].val # Nil
              /\ ret[c].val.transactionId =
                    SentString(ans[c].res.Body, "transactionId")
              /\ ret[c].val.moreDataAvailable =
                    SentBool(ans[c].res.Body, "moreDataAvailable")

C6_Witness ==
    \E c \in Callers :
        /\ pc[c] = "returned"
        /\ call[c].op = "SyncData"
        /\ call[c].fromCursor
        /\ call[c].createTransaction
        /\ lastTx[c] = TX_odd
        /\ Received(req[c], K_lastTransactionId) = TX_odd
        /\ ret[c].err = Nil
        /\ ret[c].val.transactionId = TX_second
        /\ ~ret[c].val.moreDataAvailable

\* The arguments of the sync call of caller c; FirstSyncData() stands for
\* SyncData("", true).
SyncArgs(c) ==
    IF call[c].op = "FirstSyncData"
    THEN [lastTransactionID |-> <<>>, createTransaction |-> TRUE]
    ELSE [lastTransactionID |-> call[c].lastTransactionID,
          createTransaction |-> call[c].createTransaction]

\* C7: the request of SyncData goes to the syncdata endpoint, carries
\* lastTransactionId if and only if lastTransactionID is not empty, with
\* that value, and carries createTransaction=true if and only if
\* createTransaction is true; FirstSyncData sends the request of
\* SyncData("", true).
C7_SyncParameters ==
    \A c \in Callers :
        (req[c] # Nil /\ IsSync(call[c])) =>
            /\ SubSeq(req[c].URL, 1, Len(client.baseURL) + Len(E_syncdata) + 1)
                  = client.baseURL \o E_syncdata \o <<"?">>
            /\ Carried(req[c], K_lastTransactionId) =
                  IF SyncArgs(c).lastTransactionID # <<>>
                  THEN <<SyncArgs(c).lastTransactionID>> ELSE <<>>
            /\ Carried(req[c], K_createTransaction) =
                  IF SyncArgs(c).createTransaction THEN <<S_true>> ELSE <<>>
            /\ call[c].op = "FirstSyncData" =>
                  req[c] = NewRequest(client, E_syncdata,
                                      SyncDataParams(<<>>, TRUE)).req

C7_Witness ==
    \E c \in Callers :
        /\ pc[c] = "inflight"
        /\ call[c].op = "SyncData"
        /\ call[c].lastTransactionID = <<"7","&","8">>
        /\ ~call[c].createTransaction
        /\ Carried(req[c], K_lastTransactionId) = <<<<"7","&","8">>>>

\* C8: no operation changes the configuration New built, and with callers
\* running at the same time the request of each call is the one its
\* operation builds from that configuration and its own arguments, and what
\* it returns is what its operation returns for the answer given to it.
C8_NoSharedState ==
    /\ client # Nil => client = made.c
    /\ \A c \in Callers :
          /\ req[c] # Nil =>
                req[c] = NewRequest(made.c, Plan(call[c]).endpoint,
                                    Plan(call[c]).params).req
          /\ (pc[c] = "returned" /\ req[c] # Nil) =>
                ret[c] = OpReturn(Plan(call[c]), RequestReturn(ans[c]))

C8_Witness ==
    \E c1, c2 \in Callers :
        /\ c1 # c2
        /\ pc[c1] = "returned"
        /\ call[c1].op = "FirstSyncData"
        /\ ret[c1].err = Nil
        /\ pc[c2] = "inflight"
        /\ call[c2].op = "SyncData"
        /\ cursor[c2] # ret[c1].val.transactionId

\* C9: the error returned for a non-200 status with a decodable envelope
\* keeps the numeric code of the envelope as a field the caller can read,
\* and its text is the message alone.
C9_ErrorKeepsCode ==
    \A c \in Callers :
        ServiceErrorCase(c) =>
            /\ ret[c].err # Nil
            /\ "Code" \in DOMAIN ret[c].err
            /\ "s" \in DOMAIN ret[c].err
            /\ ret[c].err.s = SentString(ans[c].res.Body, "message")

\* C10 as stated: a call hands at most one request to the transport, and
\* when the transport fails the operation returns the error of the
\* transport unchanged and no result.
C10_NoRetryNoResult ==
    \A c \in Callers :
        /\ sent[c] <= 1
        /\ (pc[c] = "returned" /\ ans[c].err # Nil) =>
              /\ ret[c].err = ans[c].err
              /\ ret[c].val = Nil

\* C10 as amended: a call hands at most one request to the transport, and
\* when the transport fails the operation returns the error of the
\* transport unchanged; a typed operation returns no result with it, and
\* Request returns the response value the transport gave with the error.
C10_NoRetryErrorUnchanged ==
    \A c \in Callers :
        /\ sent[c] <= 1
        /\ (pc[c] = "returned" /\ ans[c].err # Nil) =>
              /\ sent[c] = 1
              /\ ret[c].err = ans[c].err
              /\ TypedCall(c) => ret[c].val = Nil
              /\ ~TypedCall(c) => ret[c].val = ans[c].res

C10_Witness ==
    \E c \in Callers :
        /\ pc[c] = "returned"
        /\ call[c].op = "Request"
        /\ ans[c].err # Nil
        /\ ans[c].res # Nil
        /\ ret[c].val = ans[c].res

RECURSIVE ParseNat(_, _)
\* The number written by the decimal digits of s, after acc.
ParseNat(s, acc) ==
    IF s = <<>> THEN acc
    ELSE ParseNat(Tail(s),
                  10 * acc + ((CHOOSE d \in 1..10 : Digits[d] = Head(s)) - 1))

\* The text is a canonical decimal integer: an optional "-", then digits
\* with no leading zero.
IsDecimal(s) ==
    LET ds == IF s # <<>> /\ Head(s) = "-" THEN Tail(s) ELSE s
    IN  /\ ds # <<>>
        /\ \A j \in 1..Len(ds) : \E d \in 1..10 : Digits[d] = ds[j]
        /\ Len(ds) > 1 => ds[1] # "0"

\* The integer the receiver reads from a canonical decimal text.
Atoi(s) == IF Head(s) = "-" THEN 0 - ParseNat(Tail(s), 0) ELSE ParseNat(s, 0)

\* The request goes to endpoint e of the client's base URL.
GoesTo(request, e) ==
    SubSeq(request.URL, 1, Len(client.baseURL) + Len(e) + 1)
        = client.baseURL \o e \o <<"?">>

\* C11: the request of GetEwonByID(id) goes to getewon and carries id once,
\* as the decimal text of id, and no name; the request of GetEwonByName(name)
\* carries name once, with the given string, and no id; both always issue
\* their request; the shared lookup given an identifier that is neither an
\* int nor a string returns errorCouldNotParseArgument and no result without
\* a request being built or sent.
C11_LookupParameter ==
    \A c \in Callers :
        /\ call[c].op = "GetEwonByID" =>
              /\ req[c] # Nil
              /\ GoesTo(req[c], E_getewon)
              /\ Len(Carried(req[c], K_id)) = 1
              /\ IsDecimal(Carried(req[c], K_id)[1])
              /\ Atoi(Carried(req[c], K_id)[1]) = call[c].id
              /\ Carried(req[c], K_name) = <<>>
        /\ call[c].op = "GetEwonByName" =>
              /\ req[c] # Nil
              /\ GoesTo(req[c], E_getewon)
              /\ Carried(req[c], K_name) = <<call[c].name>>
              /\ Carried(req[c], K_id) = <<>>
        /\ (call[c].op = "getEwonByIdentifier"
            /\ call[c].i.kind \notin {"int", "string"}) =>
              /\ pc[c] = "returned"
              /\ ret[c] = [val |-> Nil, err |-> errorCouldNotParseArgument]
              /\ req[c] = Nil
              /\ sent[c] = 0
              /\ ans[c] = NoAnswer

C11_Witness ==
    \E c \in Callers :
        /\ pc[c] = "returned"
        /\ call[c].op = "GetEwonByID"
        /\ call[c].id = -7
        /\ Carried(req[c], K_id) = <<<<"-","7">>>>
        /\ ret[c].err = Nil

CredentialKeys == {K_t2maccount, K_t2musername, K_t2mpassword, K_t2mdevid}

\* The value the client holds for a credential key, as a list; none for
\* another key.
CredentialValues(k) ==
    IF k = K_t2maccount THEN <<client.AccountID>>
    ELSE IF k = K_t2musername THEN <<client.Username>>
    ELSE IF k = K_t2mpassword THEN <<client.Password>>
    ELSE IF k = K_t2mdevid THEN <<client.DevID>>
    ELSE <<>>

\* The values the caller of c's call supplied under key k, in order: Request
\* takes a list of values per key, GetData one value per key.
CallerValues(c, k) ==
    IF k \notin DOMAIN call[c].params THEN <<>>
    ELSE IF call[c].op = "GetData" THEN <<call[c].params[k]>>
    ELSE call[c].params[k]

\* C12: the query string of a request built from caller-supplied parameters
\* (Request, GetData) carries, under every key, the client's credential for
\* that key (if it is a credential key) followed by the caller's values for
\* it in the order given, and carries no other key: a caller's value under
\* a credential key comes after the credential and neither is dropped.
C12_MergeAppends ==
    \A c \in Callers :
        (req[c] # Nil /\ call[c].op \in {"Request", "GetData"}) =>
            LET pairs == ParseQuery(QueryOf(req[c].URL))
                keys == CredentialKeys \cup DOMAIN call[c].params
            IN  /\ \A k \in keys :
                      Carried(req[c], k) = CredentialValues(k) \o CallerValues(c, k)
                /\ \A j \in 1..Len(pairs) : pairs[j][1] \in keys

C12_Witness ==
    \E c \in Callers :
        /\ pc[c] = "inflight"
        /\ call[c].op = "GetData"
        /\ client.AccountID = <<"a","/","c">>
        /\ Carried(req[c], K_t2maccount) = <<<<"a","/","c">>, <<"x","=","y">>>>

\* Caller c's call has returned after the transport delivered, without an
\* error of its own, a response of a status other than 200.
Non200Case(c) ==
    /\ pc[c] = "returned"
    /\ ans[c].err = Nil
    /\ ans[c].res # Nil
    /\ ans[c].res.StatusCode # 200

\* The fields of the envelope {success, code, message} that a JSON object
\* holds with another type than the envelope's.
MistypedEnvelopeFields(body) ==
    {f \in DOMAIN body.fields :
        \/ f = "success" /\ body.fields[f].t # "bool"
        \/ f = "code" /\ body.fields[f].t # "number"
        \/ f = "message" /\ body.fields[f].t # "string"}

\* C13: when the transport delivers a response of a status other than 200,
\* Request and every operation built on it return no response or result;
\* and when the body cannot be decoded as the error envelope the error
\* returned is the error of the decoder (a syntax error for a body that is
\* not JSON, a type error naming the mistyped field otherwise), never an
\* error built from a message.
C13_UndecodableEnvelope ==
    \A c \in Callers :
        Non200Case(c) =>
            /\ ret[c].val = Nil
            /\ ret[c].err # Nil
            /\ ~IsEnvelope(ans[c].res.Body) =>
                  /\ ret[c].err.type # "errorString"
                  /\ ans[c].res.Body.kind = "syntax" =>
                        ret[c].err = [type |-> "json.SyntaxError"]
                  /\ ans[c].res.Body.kind = "object" =>
                        /\ ret[c].err.type = "json.UnmarshalTypeError"
                        /\ ret[c].err.Field \in
                              MistypedEnvelopeFields(ans[c].res.Body)

C13_Witness ==
    \E c \in Callers :
        /\ Non200Case(c)
        /\ call[c].op = "Request"
        /\ ans[c].res.StatusCode = 404
        /\ ans[c].res.Body = B_badMessage
        /\ ret[c].val = Nil
        /\ ret[c].err = [type |-> "json.UnmarshalTypeError", Field |-> "message"]

\* Caller c's call has returned after the transport delivered a response
\* without an error of its own.
AnsweredCase(c) ==
    /\ pc[c] = "returned"
    /\ ans[c].err = Nil
    /\ ans[c].res # Nil

\* The call of caller c returned a service error: the error Request builds
\* from the message of an error envelope.
ServiceError(c) == ret[c].err # Nil /\ ret[c].err.type = "errorString"

\* The body is a JSON object whose fields that type T declares have the
\* types T gives them, whatever their values.
WellTyped(body, T) ==
    /\ body.kind = "object"
    /\ \A f \in DOMAIN body.fields \cap DOMAIN T : body.fields[f].t = T[f].t

\* The device array of a body as the service wrote it (nil when absent).
SentEwons(body) ==
    IF "ewons" \in DOMAIN body.fields THEN body.fields.ewons.v ELSE Nil

\* On status 200 the outcome does not depend on the value of the success
\* flag: a direct Request returns the response and no error; a typed
\* operation returns no service error, and no error at all and a result when
\* the body has the types of the operation's result, whatever success says;
\* GetEwons then returns the device sequence of the body.
FlagIgnoredOn200(c) ==
    (AnsweredCase(c) /\ ans[c].res.StatusCode = 200) =>
        /\ ~ServiceError(c)
        /\ ~TypedCall(c) => ret[c] = [val |-> ans[c].res, err |-> Nil]
        /\ (TypedCall(c) /\ WellTyped(ans[c].res.Body, Plan(call[c]).T)) =>
              /\ ret[c].err = Nil
              /\ call[c].op # "GetEwons" => ret[c].val # Nil
              /\ call[c].op = "GetEwons" =>
                    ret[c].val = SentEwons(ans[c].res.Body)

\* C14 as stated: an operation returns a service error if and only if the
\* status of the response differs from 200, and on status 200 the success
\* flag of the body does not influence the outcome.
C14_ServiceErrorIffNot200 ==
    \A c \in Callers :
        /\ AnsweredCase(c) => (ServiceError(c) <=> ans[c].res.StatusCode # 200)
        /\ FlagIgnoredOn200(c)

\* C14 as amended: an operation fails at the status check if and only if
\* the status of the response differs from 200: on any other status, other
\* 2xx codes included, it returns an error and no result, which is the
\* service error when the error envelope decodes and the error of the
\* decoder when it does not; on status 200 it returns no service error and
\* the success flag of the body does not influence the outcome.
C14_StatusAloneDecides ==
    \A c \in Callers :
        /\ (AnsweredCase(c) /\ ans[c].res.StatusCode # 200) =>
              /\ ret[c].err # Nil
              /\ ret[c].val = Nil
              /\ ServiceError(c) <=> IsEnvelope(ans[c].res.Body)
        /\ FlagIgnoredOn200(c)

C14_Witness ==
    \E c \in Callers :
        /\ AnsweredCase(c)
        /\ call[c].op = "GetEwons"
        /\ ans[c].res.StatusCode = 200
        /\ ans[c].res.Body = B_ewonsNoSuccess
        /\ ret[c] = [val |-> [elems |-> <<508238>>], err |-> Nil]

=============================================================================
